---- MODULE Spec2Model ----
(***************************************************************************)
(* A model of the recipe-discovery core of projekt_agh:                    *)
(*   - the reverse-index trie (src/src/utils/reverse_index_trie.py):       *)
(*     insertion, prefix search, and the build / persist / load lifecycle  *)
(*     of TrieManager over a small file system;                            *)
(*   - the veto-weighted scorer (src/tests/processor.py).                  *)
(* Text is modelled as sequences of one-character strings.  Three          *)
(* specifications share the variables: SpecTrie (insertion and search as   *)
(* functions of a dataset), SpecScore (calculate_row_score) and Spec (the  *)
(* TrieManager lifecycle).  The variables a specification does not use     *)
(* stay at their initial value.                                            *)
(***************************************************************************)
EXTENDS Integers, Sequences, FiniteSets, TLC

\* ---------------------------------------------------------------- bounds
\* Most characters of the data column of a generated dataset, all rows
\* together.
MaxChars == 4
\* Most rows of a generated dataset.
MaxRows == 2
\* Longest search prefix tried.
MaxPrefix == 2
\* Longest ingredient field of a scored row.
MaxIng == 3
\* Longest likes list and longest dislikes list.
MaxLikes == 2
MaxDislikes == 1
\* Most rows of a ranked dataset.
MaxDocs == 6
\* The clock of the file system runs from 1 to MaxTime.
MaxTime == 2
\* The inodes of the file system.
NInodes == 4

\* ------------------------------------------------------------------ text
\* The alphabet: two letters (one given in upper case), the blank and the
\* separator.
Char == {"a", "B", " ", ";"}

\* The missing value pandas reads for an empty field (NaN): as an identifier,
\* and as a data field (a text no string of the alphabet equals).
NA == "NaN"

NAText == <<NA>>

\* The document identifiers of the datasets.
DocIds == {"d1", "d2"}

\* What a caller may type: the alphabet and the lower-case second letter.
QueryChar == Char \cup {"b"}

RECURSIVE StringsOver(_, _)
StringsOver(A, n) ==
    IF n = 0 THEN {<<>>}
    ELSE LET S == StringsOver(A, n - 1)
         IN  S \cup {Append(s, c) : s \in {x \in S : Len(x) = n - 1}, c \in A}

StringsUpTo(n) == StringsOver(Char, n)

\* The length of a data field; a missing field has no characters.
DataLen(x) == IF x = <<NA>> THEN 0 ELSE Len(x)

Range(s) == {s[i] : i \in 1..Len(s)}

\* str.lower() on one character.
LowerChar(c) == IF c = "B" THEN "b" ELSE c

\* str.lower()
lower(s) == [i \in 1..Len(s) |-> LowerChar(s[i])]

\* str.strip(): drops the leading and the trailing blanks.
RECURSIVE lstrip(_)
lstrip(s) == IF s # <<>> /\ Head(s) = " " THEN lstrip(Tail(s)) ELSE s

RECURSIVE rstrip(_)
rstrip(s) ==
    IF s # <<>> /\ s[Len(s)] = " " THEN rstrip(SubSeq(s, 1, Len(s) - 1)) ELSE s

strip(s) == rstrip(lstrip(s))

\* str.split(sep): the pieces of s between the occurrences of sep; always at
\* least one piece.
RECURSIVE SplitFrom(_, _, _)
SplitFrom(s, sep, cur) ==
    IF s = <<>> THEN <<cur>>
    ELSE IF Head(s) = sep THEN <<cur>> \o SplitFrom(Tail(s), sep, <<>>)
    ELSE SplitFrom(Tail(s), sep, Append(cur, Head(s)))

split(s, sep) == SplitFrom(s, sep, <<>>)

\* x in y, for strings: x occurs in y as a contiguous piece.
IsSubstr(x, y) ==
    \E i \in 0..(Len(y) - Len(x)) : SubSeq(y, i + 1, i + Len(x)) = x

\* p is a prefix of w (the empty string and w itself included).
IsPrefix(p, w) == Len(p) <= Len(w) /\ SubSeq(w, 1, Len(p)) = p

\* ------------------------------------------------------------------ trie
\* The nested dictionaries of the source are kept as one map from the path
\* of a node (the characters from the root) to the node: kids are the
\* character keys in insertion order, term says whether "__ids__" is a key,
\* ids is its list.
EmptyNode == [kids |-> <<>>, term |-> FALSE, ids |-> <<>>]

\* {}
EmptyTrie == (<<>> :> EmptyNode)

separator == ";"

\* The walk of _add_to_trie: one node per character, created when absent.
RECURSIVE AddPath(_, _, _)
AddPath(trie, w, i) ==
    IF i > Len(w) THEN trie
    ELSE LET par == SubSeq(w, 1, i - 1)
             cur == SubSeq(w, 1, i)
             t2  == IF cur \in DOMAIN trie THEN trie
                    ELSE [trie EXCEPT ![par].kids = Append(@, w[i])]
                         @@ (cur :> EmptyNode)
         IN  AddPath(t2, w, i + 1)

\* An insertion that appends the id without looking for it in the list.
add_to_trie_always_appends(trie, word, doc_id) ==
    LET clean_word == strip(lower(word))
    IN  IF clean_word = <<>> THEN trie
        ELSE LET t == AddPath(trie, clean_word, 1)
                 n == t[clean_word]
             IN  [t EXCEPT ![clean_word] =
                     [kids |-> n.kids, term |-> TRUE, ids |-> Append(n.ids, doc_id)]]

\* _add_to_trie(trie, word, doc_id)
add_to_trie(trie, word, doc_id) ==
    LET clean_word == strip(lower(word))
    IN  IF clean_word = <<>> THEN trie
        ELSE LET t == AddPath(trie, clean_word, 1)
                 n == t[clean_word]
                 ids == IF doc_id \in Range(n.ids) THEN n.ids
                        ELSE Append(n.ids, doc_id)
             IN  [t EXCEPT ![clean_word] = [kids |-> n.kids, term |-> TRUE, ids |-> ids]]

\* for item in items: self._add_to_trie(temp_root, item, doc_id)
RECURSIVE AddItems(_, _, _)
AddItems(trie, items, doc_id) ==
    IF items = <<>> THEN trie
    ELSE AddItems(add_to_trie(trie, Head(items), doc_id), Tail(items), doc_id)

\* chunk.dropna(subset=[id_col, data_col])
dropna_data_only(rows) == SelectSeq(rows, LAMBDA r : r.data # NAText)

dropna(rows) == SelectSeq(rows, LAMBDA r : r.id # NA /\ r.data # NAText)

\* The loop over the rows of the dataset that fills temp_root.
RECURSIVE AddRows(_, _)
AddRows(trie, rows) ==
    IF rows = <<>> THEN trie
    ELSE AddRows(AddItems(trie, split(Head(rows).data, separator), Head(rows).id),
                 Tail(rows))

BuildTrie(rows) == AddRows(EmptyTrie, dropna(rows))

\* The explicit work stack of _collect_words_iterative: pop the last entry,
\* record its word when the node is terminal, push its children in key order.
RECURSIVE CollectLoop(_, _, _)
CollectLoop(trie, stack, results) ==
    IF stack = <<>> THEN results
    ELSE LET curr_word == stack[Len(stack)]
             curr_node == trie[curr_word]
             rest == SubSeq(stack, 1, Len(stack) - 1)
             res2 == IF curr_node.term THEN Append(results, curr_word) ELSE results
             pushed == [i \in 1..Len(curr_node.kids) |->
                           Append(curr_word, curr_node.kids[i])]
         IN  CollectLoop(trie, rest \o pushed, res2)

\* A collection that forgets the start node's own terminal marker.
collect_below_start_only(trie, start_node, prefix) ==
    CollectLoop(trie, [i \in 1..Len(trie[start_node].kids) |->
                          Append(start_node, trie[start_node].kids[i])], <<>>)

\* A collection whose stack starts with the start node twice.
collect_start_pushed_twice(trie, start_node, prefix) ==
    CollectLoop(trie, <<start_node, start_node>>, <<>>)

\* _collect_words_iterative(start_node, prefix)
collect_words_iterative(trie, start_node, prefix) ==
    CollectLoop(trie, <<start_node>>, <<>>)

\* The descent of search: FALSE as soon as a character is no key of the node.
RECURSIVE WalkOk(_, _, _)
WalkOk(trie, w, i) ==
    IF i > Len(w) THEN TRUE
    ELSE IF w[i] \in Range(trie[SubSeq(w, 1, i - 1)].kids)
         THEN WalkOk(trie, w, i + 1)
         ELSE FALSE

\* The longest beginning of w that is a path of the trie.
RECURSIVE DeepestReached(_, _, _)
DeepestReached(trie, w, i) ==
    IF i > Len(w) THEN w
    ELSE IF w[i] \in Range(trie[SubSeq(w, 1, i - 1)].kids)
         THEN DeepestReached(trie, w, i + 1)
         ELSE SubSeq(w, 1, i - 1)

\* A search without the test for the empty prefix.
search_without_empty_test(trie, prefix) ==
    LET clean_prefix == lower(prefix)
    IN  IF WalkOk(trie, clean_prefix, 1)
        THEN collect_words_iterative(trie, clean_prefix, clean_prefix)
        ELSE <<>>

\* A search that falls back on the part of the prefix it could walk.
search_with_partial_fallback(trie, prefix) ==
    IF prefix = <<>> THEN <<>>
    ELSE LET clean_prefix == lower(prefix)
             reached == DeepestReached(trie, clean_prefix, 1)
         IN  IF reached = <<>> THEN <<>>
             ELSE collect_words_iterative(trie, reached, reached)

\* A search that walks the prefix as given, without lower-casing it.
search_without_lower(trie, prefix) ==
    IF prefix = <<>> THEN <<>>
    ELSE IF WalkOk(trie, prefix, 1)
         THEN collect_words_iterative(trie, prefix, prefix)
         ELSE <<>>

\* search(prefix)
search(trie, prefix) ==
    IF prefix = <<>> THEN <<>>
    ELSE LET clean_prefix == lower(prefix)
         IN  IF WalkOk(trie, clean_prefix, 1)
             THEN collect_words_iterative(trie, clean_prefix, clean_prefix)
             ELSE <<>>

\* The tokens the build inserts for a dataset: the lower-cased, trimmed,
\* non-empty pieces of the data column of the rows that have both fields.
RowTokens(r) ==
    {strip(lower(it)) : it \in Range(split(r.data, separator))} \ {<<>>}

Tokens(rows) == UNION {RowTokens(rows[i]) : i \in {j \in 1..Len(rows) :
                                              rows[j].id # NA /\ rows[j].data # NAText}}

\* The normalized pieces of a row's data field, in order, empty ones dropped.
RowWords(r) ==
    SelectSeq([i \in 1..Len(split(r.data, separator)) |->
                  strip(lower(split(r.data, separator)[i]))],
              LAMBDA w : w # <<>>)

\* The build calls _add_to_trie more than once with the same word and id.
RepeatedInsert(rows) ==
    LET kept == dropna(rows)
    IN  \/ \E i \in 1..Len(kept) :
              Len(RowWords(kept[i])) # Cardinality(Range(RowWords(kept[i])))
        \/ \E i, j \in 1..Len(kept) :
              /\ i < j
              /\ kept[i].id = kept[j].id
              /\ Range(RowWords(kept[i])) \cap Range(RowWords(kept[j])) # {}

\* ----------------------------------------------------- the artifact file
\* A file is a sequence of pieces ("bytes").  The JSON text of a trie is an
\* opening brace, one piece per node in key order (depth first), and a
\* closing brace.  Other pieces stand for damage: "#" is text that is no
\* JSON, "xff" a byte that is no UTF-8.
Tok(t) == [tag |-> t, path |-> <<>>, kids |-> <<>>, term |-> FALSE, ids |-> <<>>]

NodeTok(trie, p) ==
    [tag |-> "node", path |-> p, kids |-> trie[p].kids,
     term |-> trie[p].term, ids |-> trie[p].ids]

RECURSIVE Preorder(_, _)
RECURSIVE PreorderKids(_, _, _)
Preorder(trie, p) == <<NodeTok(trie, p)>> \o PreorderKids(trie, p, 1)

PreorderKids(trie, p, i) ==
    IF i > Len(trie[p].kids) THEN <<>>
    ELSE Preorder(trie, Append(p, trie[p].kids[i])) \o PreorderKids(trie, p, i + 1)

\* json.dump(temp_root, f, separators=(',', ':'))
Serialize(trie) == <<Tok("{")>> \o Preorder(trie, <<>>) \o <<Tok("}")>>

\* open(..., encoding='utf-8') reads the text: every byte decodes.
Decodable(text) == \A i \in 1..Len(text) : text[i].tag # "xff"

\* The text is one complete JSON object.
WellFormed(text) ==
    /\ Len(text) >= 3
    /\ text[1].tag = "{"
    /\ text[Len(text)].tag = "}"
    /\ \A i \in 2..(Len(text) - 1) : text[i].tag = "node"
    /\ text[2].path = <<>>

\* json.load(f) on a well-formed text: the nested dictionaries again.
ParsedTrie(text) ==
    LET nodes == {text[i] : i \in 2..(Len(text) - 1)}
    IN  [p \in {e.path : e \in nodes} |->
            LET e == CHOOSE x \in nodes : x.path = p
            IN  [kids |-> e.kids, term |-> e.term, ids |-> e.ids]]

\* What _load_trie meets: "decode" (UnicodeDecodeError, not caught), "json"
\* (json.JSONDecodeError, caught) or "ok".
LoadOutcome(text) ==
    IF ~Decodable(text) THEN "decode"
    ELSE IF ~WellFormed(text) THEN "json"
    ELSE "ok"

\* The text of a path with no file, and of a file not read yet.
NoFileText == <<Tok("nofile")>>

Unread == <<Tok("unread")>>

\* The file is a complete snapshot of some trie.
ValidSnapshot(text) == text # NoFileText /\ LoadOutcome(text) = "ok"

\* A temporary path that is the artifact path itself.
temp_output_in_place == "art"

\* self.output_json, and temp_output = self.output_json + ".tmp"
output_json == "art"

temp_output == "tmp"

\* A cleanup that removes the artifact instead of the temporary file.
cleanup_target_is_output == "art"

\* Lines 91-92: the file the except branch removes.
cleanup_target == temp_output

\* A staleness test that takes an artifact as old as the source for fresh.
is_fresh_or_equal(output_mtime, input_mtime) ==
    output_mtime >= input_mtime /\ output_mtime > 0

\* if output_mtime > input_mtime and output_mtime > 0: return
is_fresh(output_mtime, input_mtime) ==
    output_mtime > input_mtime /\ output_mtime > 0

\* ---------------------------------------------------------------- scorer
\* config.WEIGHT_INGREDIENT_MATCH (10.0)
WEIGHT_INGREDIENT_MATCH == 10

\* The score of a disqualified row.
DISQUALIFIED == -1

RECURSIVE Gcd(_, _)
Gcd(a, b) == IF b = 0 THEN a ELSE Gcd(b, a % b)

\* The quotient n / d (d > 0) as a fraction in lowest terms: the accuracy is
\* a float in the source and an exact rational here.
Frac(n, d) == LET g == Gcd(n, d) IN [num |-> n \div g, den |-> d \div g]

Zero == [num |-> 0, den |-> 1]

\* [i.strip().lower() for i in ing_str.split(config.SEPARATOR)]
ingredients_of(ing_str) ==
    LET parts == split(ing_str, separator)
    IN  [i \in 1..Len(parts) |-> lower(strip(parts[i]))]

\* A containment test that lower-cases and trims the term first.
any_contains_normalized(term, ingredients) ==
    \E j \in 1..Len(ingredients) : IsSubstr(lower(strip(term)), ingredients[j])

\* any(term in ing for ing in ingredients)
any_contains(term, ingredients) ==
    \E j \in 1..Len(ingredients) : IsSubstr(term, ingredients[j])

\* A veto test that asks for a whole ingredient instead of a piece of one.
any_dislike_equals(dislikes, ingredients) ==
    \E k \in 1..Len(dislikes) : \E j \in 1..Len(ingredients) :
        dislikes[k] = ingredients[j]

\* for dislike in dislikes: if any(dislike in ing ...): return -1, 0.0
any_dislike_found(dislikes, ingredients) ==
    \E k \in 1..Len(dislikes) : any_contains(dislikes[k], ingredients)

\* A count that takes each liked term once, however often the list names it.
count_distinct_matches(likes, ingredients) ==
    Cardinality({t \in Range(likes) : any_contains(t, ingredients)})

\* A count that adds one for every ingredient a liked term occurs in.
RECURSIVE count_ingredient_hits(_, _)
count_ingredient_hits(likes, ingredients) ==
    IF likes = <<>> THEN 0
    ELSE Cardinality({j \in 1..Len(ingredients) : IsSubstr(Head(likes), ingredients[j])})
         + count_ingredient_hits(Tail(likes), ingredients)

\* for like in likes: if any(like in ing ...): matches += 1
RECURSIVE count_matches(_, _)
count_matches(likes, ingredients) ==
    IF likes = <<>> THEN 0
    ELSE (IF any_contains(Head(likes), ingredients) THEN 1 ELSE 0)
         + count_matches(Tail(likes), ingredients)

\* A maximum that forgets the weight.
max_possible_unweighted(likes) == Len(likes)

\* max_possible_score = len(likes) * config.WEIGHT_INGREDIENT_MATCH
max_possible_score(likes) == Len(likes) * WEIGHT_INGREDIENT_MATCH

\* A scoring without the test of line 16: a field that is no text counts as
\* a row without ingredients.
calculate_row_score_without_validation(ing_str, likes, dislikes) ==
    LET ingredients == IF ing_str = NAText THEN <<>> ELSE ingredients_of(ing_str)
    IN  IF any_dislike_found(dislikes, ingredients)
        THEN [score |-> DISQUALIFIED, accuracy |-> Zero]
        ELSE LET final_score == count_matches(likes, ingredients)
                                    * WEIGHT_INGREDIENT_MATCH
                 max_score == max_possible_score(likes)
             IN  [score |-> final_score,
                  accuracy |-> IF max_score > 0
                               THEN Frac(final_score * 100, max_score)
                               ELSE Zero]

\* calculate_row_score(row, likes, dislikes): (final_score, accuracy)
calculate_row_score(ing_str, likes, dislikes) ==
    IF ing_str = NAText THEN [score |-> DISQUALIFIED, accuracy |-> Zero]
    ELSE LET ingredients == ingredients_of(ing_str)
         IN  IF any_dislike_found(dislikes, ingredients)
             THEN [score |-> DISQUALIFIED, accuracy |-> Zero]
             ELSE LET matches == count_matches(likes, ingredients)
                      final_score == matches * WEIGHT_INGREDIENT_MATCH
                      max_score == max_possible_score(likes)
                  IN  [score |-> final_score,
                       accuracy |-> IF max_score > 0
                                    THEN Frac(final_score * 100, max_score)
                                    ELSE Zero]

\* ------------------------------------------------------------- variables
VARIABLES
    q_pc,        \* SpecTrie: "off" | "init" | "built" | "searched"
    q_rows,      \* SpecTrie: the dataset still to read, a sequence of [id, data]
    q_trie,      \* SpecTrie: the trie built from the dataset
    q_tokens,    \* SpecTrie: the words the build inserted (history)
    q_repeats,   \* SpecTrie: some (word, id) pair was inserted twice (history)
    q_skipped,   \* SpecTrie: the number of rows the build left out (history)
    q_prefix,    \* SpecTrie: the last prefix searched
    q_results,   \* SpecTrie: what search returned for it
    s_pc,        \* SpecScore: "off" | "init" | "done"
    s_ing,       \* SpecScore: the row's ingredient field (NAText: not a text)
    s_likes,     \* SpecScore: the likes list
    s_dislikes,  \* SpecScore: the dislikes list
    s_result,    \* SpecScore: what calculate_row_score returned
    r_pc,        \* SpecRank: "off" | "init" | "done" | "nofile" | "raised"
    r_rows,      \* SpecRank: the rows of the dataset: [ing, reviews]
    r_likes,     \* SpecRank: user_likes
    r_dislikes,  \* SpecRank: user_dislikes
    r_topk,      \* SpecRank: the number of entries the caller wants
    r_scored,    \* SpecRank: what calculate_row_score returned for each row
    r_out,       \* SpecRank: the rows find_best_recipes returned
    clock,       \* Spec: the time of the file system
    src,         \* Spec: the source dataset: [kind, rows, mtime]
    dir,         \* Spec: the inode of each path, 0 when the path has no file
    idata,       \* Spec: the content of each inode
    imtime,      \* Spec: the modification time of each inode
    pc,          \* Spec: where each TrieManager process stands
    trie_root,   \* Spec: self.trie_root of each process
    temp_root,   \* Spec: temp_root of _generate_trie_if_needed
    io,          \* Spec: the open files of each process: [wfd, wpos, lfd]
    h,           \* Spec: what happened in the current construction (history)
    last,        \* Spec: the trie of the last build that was persisted (history)
    c_pc,        \* SpecCollect: "off" | "init" | "loop" | "done"
    c_trie,      \* SpecCollect: the trie that is walked
    c_start,     \* SpecCollect: the path of start_node
    c_stack,     \* SpecCollect: stack, the paths of the nodes on it
    c_results,   \* SpecCollect: results
    c_pops,      \* SpecCollect: the nodes popped so far, in order (history)
    w_now,       \* SpecWatch: time.time(), in quarters of a second
    w_last,      \* SpecWatch: self.last_triggered_time
    w_calls,     \* SpecWatch: the calls of my_trigger_function so far
    w_evt        \* SpecWatch: the last event dispatched and what it did (history)

l_vars == <<clock, src, dir, idata, imtime, pc, trie_root, temp_root, io, h, last>>

vars == <<q_pc, q_rows, q_trie, q_tokens, q_repeats, q_skipped, q_prefix, q_results,
          s_pc, s_ing, s_likes, s_dislikes, s_result,
          r_pc, r_rows, r_likes, r_dislikes, r_topk, r_scored, r_out,
          clock, src, dir, idata, imtime, pc, trie_root, temp_root, io, h, last,
          c_pc, c_trie, c_start, c_stack, c_results, c_pops,
          w_now, w_last, w_calls, w_evt>>

c_vars == <<c_pc, c_trie, c_start, c_stack, c_results, c_pops>>

w_vars == <<w_now, w_last, w_calls, w_evt>>

s_vars == <<s_pc, s_ing, s_likes, s_dislikes, s_result>>

r_vars == <<r_pc, r_rows, r_likes, r_dislikes, r_topk, r_scored, r_out>>

q_vars == <<q_pc, q_rows, q_trie, q_tokens, q_repeats, q_skipped, q_prefix, q_results>>

QOff ==
    /\ q_pc = "off"
    /\ q_rows = <<>>
    /\ q_trie = EmptyTrie
    /\ q_tokens = {}
    /\ q_repeats = FALSE
    /\ q_skipped = 0
    /\ q_prefix = <<>>
    /\ q_results = <<>>

COff ==
    /\ c_pc = "off"
    /\ c_trie = EmptyTrie
    /\ c_start = <<>>
    /\ c_stack = <<>>
    /\ c_results = <<>>
    /\ c_pops = <<>>

\* No event has been dispatched.
NoEvent == [kind |-> "none", is_directory |-> FALSE, src_path |-> "none",
            dest_path |-> "none", at |-> 0, last0 |-> 0, called |-> FALSE]

WOff ==
    /\ w_now = 0
    /\ w_last = 0
    /\ w_calls = 0
    /\ w_evt = NoEvent

SOff ==
    /\ s_pc = "off"
    /\ s_ing = <<>>
    /\ s_likes = <<>>
    /\ s_dislikes = <<>>
    /\ s_result = [score |-> 0, accuracy |-> Zero]

ROff ==
    /\ r_pc = "off"
    /\ r_rows = <<>>
    /\ r_likes = <<>>
    /\ r_dislikes = <<>>
    /\ r_topk = 0
    /\ r_scored = <<>>
    /\ r_out = <<>>

\* ------------------------------------------------- the lifecycle's state
\* The TrieManager processes (invocations of the program over the same paths).
Procs == {"p1", "p2"}

Paths == {"art", "tmp"}

\* The source datasets tried: two one-row datasets with different words.
SourceA == <<[id |-> "d1", data |-> <<"a">>]>>

SourceB == <<[id |-> "d2", data |-> <<"B">>]>>

SourceDatasets == {SourceA, SourceB}

\* The history of a construction that has not run yet.
H0 == [checked |-> FALSE, amt |-> 0, smt |-> 0, rows0 |-> <<>>, kind0 |-> "none",
       art0 |-> Unread, last0 |-> EmptyTrie, entered |-> FALSE, built |-> FALSE, moved |-> FALSE, failed |-> FALSE, crashed_in |-> "none",
       end_art |-> Unread, read |-> Unread, answer |-> <<<<"none">>>>]

IO0 == [wfd |-> 0, wpos |-> 0, lfd |-> 0]

\* The state before any process has run: a source dataset, no artifact.
LOff ==
    /\ clock = 1
    /\ src = [kind |-> "ok", rows |-> SourceA, mtime |-> 1]
    /\ dir = [x \in Paths |-> 0]
    /\ idata = [i \in 1..NInodes |-> <<>>]
    /\ imtime = [i \in 1..NInodes |-> 0]
    /\ pc = [p \in Procs |-> "idle"]
    /\ trie_root = [p \in Procs |-> EmptyTrie]
    /\ temp_root = [p \in Procs |-> EmptyTrie]
    /\ io = [p \in Procs |-> IO0]
    /\ h = [p \in Procs |-> H0]
    /\ last = [some |-> FALSE, trie |-> EmptyTrie]

\* -------------------------------------------------------------- SpecTrie
\* A data field as read_csv yields it: a non-empty text, or NA for an empty
\* field.
DataValues(c) == (StringsUpTo(c) \ {<<>>}) \cup {NAText}

IdValues == DocIds \cup {NA}

\* The characters of the data column of a dataset, all rows together.
RECURSIVE TotalChars(_)
TotalChars(rows) ==
    IF rows = <<>> THEN 0 ELSE DataLen(Head(rows).data) + TotalChars(Tail(rows))

Prefixes == StringsOver(QueryChar, MaxPrefix)

InitTrie ==
    /\ q_pc = "init"
    /\ q_rows = <<>>
    /\ q_trie = EmptyTrie
    /\ q_tokens = {}
    /\ q_repeats = FALSE
    /\ q_skipped = 0
    /\ q_prefix = <<>>
    /\ q_results = <<>>
    /\ SOff
    /\ ROff
    /\ LOff
    /\ COff
    /\ WOff

\* The source dataset gets one more row, within the bounds.
QGiveRow ==
    /\ q_pc = "init"
    /\ Len(q_rows) < MaxRows
    /\ \E i \in IdValues : \E x \in DataValues(MaxChars - TotalChars(q_rows)) :
          q_rows' = Append(q_rows, [id |-> i, data |-> x])
    /\ UNCHANGED <<q_pc, q_trie, q_tokens, q_repeats, q_skipped, q_prefix, q_results>>
    /\ UNCHANGED <<s_vars, l_vars, r_vars, c_vars, w_vars>>

\* The build: the reader is read to its end and every row is inserted.
QBuild ==
    /\ q_pc = "init"
    /\ q_trie' = BuildTrie(q_rows)
    /\ q_tokens' = Tokens(q_rows)
    /\ q_repeats' = RepeatedInsert(q_rows)
    /\ q_skipped' = Len(q_rows) - Len(dropna(q_rows))
    /\ q_rows' = <<>>
    /\ q_pc' = "built"
    /\ UNCHANGED <<q_prefix, q_results>>
    /\ UNCHANGED <<s_vars, l_vars, r_vars, c_vars, w_vars>>

\* One call of search on the built trie.
QSearch ==
    /\ q_pc = "built"
    /\ \E p \in Prefixes :
          /\ q_prefix' = p
          /\ q_results' = search(q_trie, p)
    /\ q_pc' = "searched"
    /\ UNCHANGED <<q_rows, q_trie, q_tokens, q_repeats, q_skipped>>
    /\ UNCHANGED <<s_vars, l_vars, r_vars, c_vars, w_vars>>

NextTrie == QGiveRow \/ QBuild \/ QSearch

SpecTrie == InitTrie /\ [][NextTrie]_vars

\* ------------------------------------------------------------- SpecScore
\* The liked and disliked terms tried: the empty term, each letter in lower
\* case, a letter in upper case, a term with a leading blank.
Terms == {<<>>, <<"a">>, <<"b">>, <<"B">>, <<" ", "a">>}

RECURSIVE ListsOver(_, _)
ListsOver(S, n) ==
    IF n = 0 THEN {<<>>}
    ELSE LET L == ListsOver(S, n - 1)
         IN  L \cup {Append(l, x) : l \in {y \in L : Len(y) = n - 1}, x \in S}

\* The ingredient field of a row: a text, or a value that is not a text.
IngredientValues == StringsUpTo(MaxIng) \cup {NAText}

InitScore ==
    /\ s_pc = "init"
    /\ s_ing \in IngredientValues
    /\ s_likes \in ListsOver(Terms, MaxLikes)
    /\ s_dislikes \in ListsOver(Terms, MaxDislikes)
    /\ s_result = [score |-> 0, accuracy |-> Zero]
    /\ QOff
    /\ ROff
    /\ LOff
    /\ COff
    /\ WOff

\* One call of calculate_row_score.
SScore ==
    /\ s_pc = "init"
    /\ s_result' = calculate_row_score(s_ing, s_likes, s_dislikes)
    /\ s_pc' = "done"
    /\ UNCHANGED <<s_ing, s_likes, s_dislikes>>
    /\ UNCHANGED <<q_vars, l_vars, r_vars, c_vars, w_vars>>

NextScore == SScore

SpecScore == InitScore /\ [][NextScore]_vars

\* -------------------------------------------------------------- SpecRank
\* The rows of the dataset tried: ingredient fields with one or two tokens or
\* no text, with a review count.  A document is known by its place in the
\* dataset.
RowKinds ==
    {[ing |-> <<"a">>, reviews |-> 1],
     [ing |-> <<"a">>, reviews |-> 2],
     [ing |-> <<"a", ";", "b">>, reviews |-> 1],
     [ing |-> <<"b">>, reviews |-> 1],
     [ing |-> NAText, reviews |-> 2]}

\* The likes and dislikes lists tried, and the limits a caller may want.
RankLikes == {<<<<"a">>>>, <<<<"a">>, <<"b">>>>}

RankDislikes == {<<>>, <<<<"b">>>>}

WantedTopK == {1, 2}

\* The frame after lines 58-65: each row with its place, final_score and
\* accuracy.
scored_frame(rows, likes, dislikes) ==
    [i \in 1..Len(rows) |->
        LET res == calculate_row_score(rows[i].ing, likes, dislikes)
        IN  [id |-> i, reviews |-> rows[i].reviews,
             score |-> res.score, accuracy |-> res.accuracy]]

\* df[df['final_score'] >= 0]
valid_rows(frame) == SelectSeq(frame, LAMBDA x : x.score >= 0)

\* An order that takes a tie on both keys for "before".
sorts_before_or_ties(x, y) ==
    \/ x.score > y.score
    \/ x.score = y.score /\ x.reviews >= y.reviews

\* An order on the score alone.
sorts_before_by_score_only(x, y) == x.score > y.score

\* by=['final_score', COL_REVIEWS], ascending=[False, False]: x goes before y.
sorts_before(x, y) ==
    \/ x.score > y.score
    \/ x.score = y.score /\ x.reviews > y.reviews

\* One row put into a sorted frame, behind the rows that tie with it.
RECURSIVE InsertRow(_, _)
InsertRow(frame, x) ==
    IF frame = <<>> THEN <<x>>
    ELSE IF sorts_before(x, Head(frame)) THEN <<x>> \o frame
         ELSE <<Head(frame)>> \o InsertRow(Tail(frame), x)

\* DataFrame.sort_values on two keys: a stable sort (rows that tie on both
\* keys keep their order).
RECURSIVE SortInto(_, _)
SortInto(sorted, frame) ==
    IF frame = <<>> THEN sorted
    ELSE SortInto(InsertRow(sorted, Head(frame)), Tail(frame))

sort_values(frame) == SortInto(<<>>, frame)

\* .head(5)
HEAD_ROWS == 5

head(frame, n) == SubSeq(frame, 1, IF Len(frame) < n THEN Len(frame) ELSE n)

\* find_best_recipes(file_path, user_likes, user_dislikes) on a file that
\* read_csv reads into these rows.
find_best_recipes(rows, likes, dislikes) ==
    head(sort_values(valid_rows(scored_frame(rows, likes, dislikes))), HEAD_ROWS)

InitRank ==
    /\ r_pc = "init"
    /\ r_rows = <<>>
    /\ r_likes = <<>>
    /\ r_dislikes = <<>>
    /\ r_topk = 0
    /\ r_scored = <<>>
    /\ r_out = <<>>
    /\ QOff
    /\ SOff
    /\ LOff
    /\ COff
    /\ WOff

\* The dataset gets one more row, within the bound.
RGiveRow ==
    /\ r_pc = "init"
    /\ Len(r_rows) < MaxDocs
    /\ \E k \in RowKinds : r_rows' = Append(r_rows, k)
    /\ UNCHANGED <<r_pc, r_likes, r_dislikes, r_topk, r_scored, r_out>>
    /\ UNCHANGED <<q_vars, s_vars, l_vars, c_vars, w_vars>>

\* One call of find_best_recipes on a dataset with rows.  The caller wants
\* r_topk entries; the function takes no such argument.
RRank ==
    /\ r_pc = "init"
    /\ Len(r_rows) >= 1
    /\ \E likes \in RankLikes : \E dislikes \in RankDislikes : \E k \in WantedTopK :
          /\ r_likes' = likes
          /\ r_dislikes' = dislikes
          /\ r_topk' = k
          /\ r_scored' = scored_frame(r_rows, likes, dislikes)
          /\ r_out' = find_best_recipes(r_rows, likes, dislikes)
    /\ r_pc' = "done"
    /\ UNCHANGED r_rows
    /\ UNCHANGED <<q_vars, s_vars, l_vars, c_vars, w_vars>>

\* Lines 79-81: the file does not exist; an empty frame is returned.
RNoFile ==
    /\ r_pc = "init"
    /\ r_rows = <<>>
    /\ r_out' = <<>>
    /\ r_pc' = "nofile"
    /\ UNCHANGED <<r_rows, r_likes, r_dislikes, r_topk, r_scored>>
    /\ UNCHANGED <<q_vars, s_vars, l_vars, c_vars, w_vars>>

\* The file holds the header line and no row: the frame is empty, apply
\* makes no call per row, and the empty frame goes through filter and sort.
RNoRows ==
    /\ r_pc = "init"
    /\ r_rows = <<>>
    /\ \E likes \in RankLikes : \E dislikes \in RankDislikes : \E k \in WantedTopK :
          /\ r_likes' = likes
          /\ r_dislikes' = dislikes
          /\ r_topk' = k
          /\ r_scored' = scored_frame(r_rows, likes, dislikes)
          /\ r_out' = find_best_recipes(r_rows, likes, dislikes)
    /\ r_pc' = "done"
    /\ UNCHANGED r_rows
    /\ UNCHANGED <<q_vars, s_vars, l_vars, c_vars, w_vars>>

\* The file exists and holds no byte: pd.read_csv raises EmptyDataError,
\* which is no FileNotFoundError, so it leaves find_best_recipes.
REmptyFile ==
    /\ r_pc = "init"
    /\ r_rows = <<>>
    /\ r_pc' = "raised"
    /\ UNCHANGED <<r_rows, r_likes, r_dislikes, r_topk, r_scored, r_out>>
    /\ UNCHANGED <<q_vars, s_vars, l_vars, c_vars, w_vars>>

NextRank == RGiveRow \/ RRank \/ RNoFile \/ RNoRows \/ REmptyFile

SpecRank == InitRank /\ [][NextRank]_vars

\* The normalized ingredient tokens of a text field, as a set.
IngredientTokens(ing_str) ==
    IF ing_str = NAText THEN {}
    ELSE {lower(strip(piece)) : piece \in Range(split(ing_str, separator))}

\* Some disliked term is a substring of some ingredient token.
Vetoed ==
    \E d \in Range(s_dislikes) : \E t \in IngredientTokens(s_ing) : IsSubstr(d, t)

\* The row is scored by its likes: its field is a text and nothing vetoes it.
NotVetoed == s_ing # NAText /\ ~Vetoed

\* The positions of the likes list whose term occurs in some ingredient token.
MatchingPositions ==
    {k \in 1..Len(s_likes) :
        \E t \in IngredientTokens(s_ing) : IsSubstr(s_likes[k], t)}

\* The distinct liked terms that occur in some ingredient token.
MatchingTerms ==
    {l \in Range(s_likes) : \E t \in IngredientTokens(s_ing) : IsSubstr(l, t)}

\* ------------------------------------------------------------------ Spec
\* The file system: what the paths and the open files refer to.
Referenced(d, iov) ==
    ({d[x] : x \in Paths} \cup {iov[p].wfd : p \in Procs}
        \cup {iov[p].lfd : p \in Procs}) \ {0}

\* An inode no path and no open file refers to.
FreeInode(d, iov) ==
    CHOOSE i \in 1..NInodes :
        /\ i \notin Referenced(d, iov)
        /\ \A j \in 1..(i - 1) : j \in Referenced(d, iov)

\* The file system after a step: an inode nothing refers to is released.
FsSet(d, iov, data, mt) ==
    /\ dir' = d
    /\ io' = iov
    /\ idata' = [i \in 1..NInodes |-> IF i \in Referenced(d, iov) THEN data[i] ELSE <<>>]
    /\ imtime' = [i \in 1..NInodes |-> IF i \in Referenced(d, iov) THEN mt[i] ELSE 0]

FsSame == UNCHANGED <<dir, io, idata, imtime>>

\* The content of the file at a path.
TextAt(path) == IF dir[path] = 0 THEN NoFileText ELSE idata[dir[path]]

\* _get_file_mtime: 0.0 for a path with no file.
get_file_mtime(path) == IF dir[path] = 0 THEN 0 ELSE imtime[dir[path]]

\* A write of one piece at an offset of a file.
WriteAt(content, k, e) ==
    [i \in 1..(IF Len(content) >= k THEN Len(content) ELSE k) |->
        IF i = k THEN e
        ELSE IF i <= Len(content) THEN content[i] ELSE Tok("nul")]

\* The processes that may build in Spec: one writer; the other invocation
\* only ever finds the artifact fresh, and reads it.
Builders == {"p1"}

\* No construction is under way, and none has just ended (the files are
\* changed from outside between the constructions only).
Quiescent == \A p \in Procs : pc[p] \in {"idle", "serving"}

\* The source dataset may also be written while the reading invocation is
\* between its staleness test and its load: the writer then finds the
\* artifact stale and persists while the reader opens and reads.
SourceMayChange ==
    \A p \in Procs : \/ pc[p] \in {"idle", "serving"}
                     \/ p \notin Builders /\ pc[p] = "load"

\* The steps of _generate_trie_if_needed after the staleness test.
BuildPhases == {"read", "mkdir", "open", "write", "move"}

PersistPhases == {"mkdir", "open", "write", "move"}

Goto(p, where) == pc' = [pc EXCEPT ![p] = where]

\* A construction that does not look for the source dataset.
source_assumed_present == TRUE

\* os.path.exists(self.source_csv)
source_exists == src.kind # "missing"

\* __init__: the fields are set; FileNotFoundError when the source is absent.
Start(p) ==
    /\ UNCHANGED <<q_vars, s_vars, r_vars, c_vars, w_vars>>
    /\ pc[p] = "idle"
    /\ trie_root' = [trie_root EXCEPT ![p] = EmptyTrie]
    /\ temp_root' = [temp_root EXCEPT ![p] = EmptyTrie]
    /\ h' = [h EXCEPT ![p] = H0]
    /\ Goto(p, IF ~source_exists THEN "raised" ELSE "gen")
    /\ FsSame
    /\ UNCHANGED <<clock, src, last>>

\* _generate_trie_if_needed, lines 57-61: the staleness test.  Only a process
\* of B goes on to build.
GenCheck(p, B) ==
    /\ UNCHANGED <<q_vars, s_vars, r_vars, c_vars, w_vars>>
    /\ pc[p] = "gen"
    /\ LET input_mtime == src.mtime
           output_mtime == get_file_mtime(output_json)
       IN  /\ h' = [h EXCEPT ![p] = [@ EXCEPT !.checked = TRUE,
                                                !.amt = output_mtime,
                                                !.smt = input_mtime,
                                                !.rows0 = src.rows,
                                                !.kind0 = src.kind,
                                                !.entered = ~is_fresh(output_mtime,
                                                                      input_mtime),
                                                !.art0 = TextAt(output_json),
                                                !.last0 = last.trie]]
           /\ \/ /\ is_fresh(output_mtime, input_mtime)
                 /\ Goto(p, "load")
              \/ /\ ~is_fresh(output_mtime, input_mtime)
                 /\ p \in B
                 /\ Goto(p, "read")
    /\ FsSame
    /\ UNCHANGED <<clock, src, trie_root, temp_root, last>>

\* Lines 67-81: the dataset is read and inserted.  A ValueError or KeyError
\* is raised again: that is a dataset without the columns ("noschema"), and
\* also one with the columns and a line of too many fields or bytes that are
\* no UTF-8 ("malformed": ParserError and UnicodeDecodeError are
\* ValueErrors).  Any other failure returns without a build.
ReadCsv(p) ==
    /\ UNCHANGED <<q_vars, s_vars, r_vars, c_vars, w_vars>>
    /\ pc[p] = "read"
    /\ \/ /\ src.kind \in {"noschema", "malformed"}
          /\ Goto(p, "raised")
          /\ UNCHANGED <<temp_root, h>>
       \/ /\ src.kind = "unreadable"
          /\ Goto(p, "load")
          /\ UNCHANGED <<temp_root, h>>
       \/ /\ src.kind = "ok"
          /\ temp_root' = [temp_root EXCEPT ![p] = BuildTrie(src.rows)]
          /\ h' = [h EXCEPT ![p].built = TRUE]
          /\ Goto(p, "mkdir")
    /\ FsSame
    /\ UNCHANGED <<clock, src, trie_root, last>>

\* Lines 89-92: except OSError: the temporary file is removed when it exists,
\* and the method returns.
PersistFailed(p) ==
    /\ FsSet([dir EXCEPT ![cleanup_target] = 0], [io EXCEPT ![p] = IO0], idata, imtime)
    /\ h' = [h EXCEPT ![p] = [@ EXCEPT !.failed = TRUE,
                                       !.end_art = IF cleanup_target = output_json
                                                   THEN NoFileText
                                                   ELSE TextAt(output_json)]]
    /\ Goto(p, "load")
    /\ UNCHANGED <<clock, src, trie_root, temp_root, last>>

\* Line 84: os.makedirs(..., exist_ok=True)
MakeDirs(p) ==
    /\ UNCHANGED <<q_vars, s_vars, r_vars, c_vars, w_vars>>
    /\ pc[p] = "mkdir"
    /\ \/ /\ Goto(p, "open")
          /\ FsSame
          /\ UNCHANGED <<clock, src, trie_root, temp_root, h, last>>
       \/ PersistFailed(p)

\* Line 85: open(temp_output, 'w'): the file is created, or emptied.
OpenTmp(p) ==
    /\ UNCHANGED <<q_vars, s_vars, r_vars, c_vars, w_vars>>
    /\ pc[p] = "open"
    /\ \/ /\ LET i == IF dir[temp_output] # 0 THEN dir[temp_output]
                      ELSE FreeInode(dir, io)
             IN  FsSet([dir EXCEPT ![temp_output] = i],
                       [io EXCEPT ![p] = [@ EXCEPT !.wfd = i, !.wpos = 0]],
                       [idata EXCEPT ![i] = <<>>],
                       [imtime EXCEPT ![i] = clock])
          /\ Goto(p, "write")
          /\ UNCHANGED <<clock, src, trie_root, temp_root, h, last>>
       \/ PersistFailed(p)

\* Line 86: json.dump writes the text piece by piece; the file is closed
\* after the last piece.
WriteChunk(p) ==
    /\ UNCHANGED <<q_vars, s_vars, r_vars, c_vars, w_vars>>
    /\ pc[p] = "write"
    /\ \/ LET text == Serialize(temp_root[p])
              k == io[p].wpos + 1
              i == io[p].wfd
              done == k = Len(text)
          IN  /\ FsSet(dir,
                       [io EXCEPT ![p] = IF done THEN IO0 ELSE [@ EXCEPT !.wpos = k]],
                       [idata EXCEPT ![i] = WriteAt(@, k, text[k])],
                       [imtime EXCEPT ![i] = clock])
              /\ Goto(p, IF done THEN "move" ELSE "write")
              /\ UNCHANGED <<clock, src, trie_root, temp_root, h, last>>
       \/ PersistFailed(p)

\* Line 87: shutil.move(temp_output, self.output_json): a rename within one
\* directory.
Move(p) ==
    /\ UNCHANGED <<q_vars, s_vars, r_vars, c_vars, w_vars>>
    /\ pc[p] = "move"
    /\ \/ /\ dir[temp_output] # 0
          /\ FsSet(IF temp_output = output_json THEN dir
                   ELSE [dir EXCEPT ![output_json] = dir[temp_output],
                                    ![temp_output] = 0],
                   io, idata, imtime)
          /\ h' = [h EXCEPT ![p] = [@ EXCEPT !.moved = TRUE,
                                             !.end_art = idata[dir[temp_output]]]]
          /\ last' = [some |-> TRUE, trie |-> temp_root[p]]
          /\ Goto(p, "load")
          /\ UNCHANGED <<clock, src, trie_root, temp_root>>
       \/ PersistFailed(p)

\* A load that keeps no "__ids__" key.
load_result_without_ids(text) ==
    [p \in DOMAIN ParsedTrie(text) |->
        [kids |-> ParsedTrie(text)[p].kids, term |-> FALSE, ids |-> <<>>]]

\* Line 97: self.trie_root = json.load(f)
load_result(text) == ParsedTrie(text)

\* _load_trie, line 96: the artifact is opened; FileNotFoundError leaves the
\* trie empty.
LoadOpen(p) ==
    /\ UNCHANGED <<q_vars, s_vars, r_vars, c_vars, w_vars>>
    /\ pc[p] = "load"
    /\ \/ /\ dir[output_json] = 0
          /\ trie_root' = [trie_root EXCEPT ![p] = EmptyTrie]
          /\ h' = [h EXCEPT ![p].read = NoFileText]
          /\ Goto(p, "ready")
          /\ FsSame
       \/ /\ dir[output_json] # 0
          /\ FsSet(dir, [io EXCEPT ![p].lfd = dir[output_json]], idata, imtime)
          /\ Goto(p, "parse")
          /\ UNCHANGED <<trie_root, h>>
    /\ UNCHANGED <<clock, src, temp_root, last>>

\* _load_trie, lines 97-100: the file is read and parsed.
LoadRead(p) ==
    /\ UNCHANGED <<q_vars, s_vars, r_vars, c_vars, w_vars>>
    /\ pc[p] = "parse"
    /\ LET text == idata[io[p].lfd]
       IN  /\ h' = [h EXCEPT ![p].read = text]
           /\ \/ /\ LoadOutcome(text) = "decode"
                 /\ Goto(p, "raised")
                 /\ UNCHANGED trie_root
              \/ /\ LoadOutcome(text) = "json"
                 /\ trie_root' = [trie_root EXCEPT ![p] = EmptyTrie]
                 /\ Goto(p, "ready")
              \/ /\ LoadOutcome(text) = "ok"
                 /\ trie_root' = [trie_root EXCEPT ![p] = load_result(text)]
                 /\ Goto(p, "ready")
    /\ FsSet(dir, [io EXCEPT ![p] = IO0], idata, imtime)
    /\ UNCHANGED <<clock, src, temp_root, last>>

\* The process dies during the persist step: its files are closed, what it
\* wrote stays.
Crash(p) ==
    /\ UNCHANGED <<q_vars, s_vars, r_vars, c_vars, w_vars>>
    /\ pc[p] \in PersistPhases
    /\ h' = [h EXCEPT ![p] = [@ EXCEPT !.crashed_in = pc[p],
                                       !.end_art = TextAt(output_json)]]
    /\ FsSet(dir, [io EXCEPT ![p] = IO0], idata, imtime)
    /\ Goto(p, "crashed")
    /\ UNCHANGED <<clock, src, trie_root, temp_root, last>>

\* The construction has returned: the manager is handed to its caller, which
\* searches it; the history of the construction is dropped.
Serve(p) ==
    /\ UNCHANGED <<q_vars, s_vars, r_vars, c_vars, w_vars>>
    /\ pc[p] = "ready"
    /\ h' = [h EXCEPT ![p] = H0]
    /\ temp_root' = [temp_root EXCEPT ![p] = EmptyTrie]
    /\ Goto(p, "serving")
    /\ FsSame
    /\ UNCHANGED <<clock, src, trie_root, last>>

\* The process ends; a later invocation starts from nothing.
Exit(p) ==
    /\ UNCHANGED <<q_vars, s_vars, r_vars, c_vars, w_vars>>
    /\ pc[p] \in {"serving", "raised", "crashed"}
    /\ trie_root' = [trie_root EXCEPT ![p] = EmptyTrie]
    /\ temp_root' = [temp_root EXCEPT ![p] = EmptyTrie]
    /\ h' = [h EXCEPT ![p] = H0]
    /\ Goto(p, "idle")
    /\ FsSame
    /\ UNCHANGED <<clock, src, last>>

\* Time passes (between the constructions).
Tick ==
    /\ UNCHANGED <<q_vars, s_vars, r_vars, c_vars, w_vars>>
    /\ Quiescent
    /\ clock < MaxTime
    /\ clock' = clock + 1
    /\ FsSame
    /\ UNCHANGED <<src, pc, trie_root, temp_root, h, last>>

\* The source dataset is written (with new rows, or the same ones).
EditSource ==
    /\ UNCHANGED <<q_vars, s_vars, r_vars, c_vars, w_vars>>
    /\ SourceMayChange
    /\ \E rows \in SourceDatasets :
          src' = [kind |-> "ok", rows |-> rows, mtime |-> clock]
    /\ FsSame
    /\ UNCHANGED <<clock, pc, trie_root, temp_root, h, last>>

\* The source dataset is removed, loses its columns, or becomes unreadable.
BreakSource ==
    /\ UNCHANGED <<q_vars, s_vars, r_vars, c_vars, w_vars>>
    /\ Quiescent
    /\ \E k \in {"missing", "noschema", "unreadable"} :
          src' = [src EXCEPT !.kind = k, !.mtime = clock]
    /\ FsSame
    /\ UNCHANGED <<clock, pc, trie_root, temp_root, h, last>>

\* The artifact file is removed by hand.
RemoveArtifact ==
    /\ UNCHANGED <<q_vars, s_vars, r_vars, c_vars, w_vars>>
    /\ Quiescent
    /\ dir[output_json] # 0
    /\ FsSet([dir EXCEPT ![output_json] = 0], io, idata, imtime)
    /\ UNCHANGED <<clock, src, pc, trie_root, temp_root, h, last>>

\* A sound artifact file is damaged: cut short, overwritten with text that is
\* no JSON, or with bytes that are no UTF-8.
DamageArtifact ==
    /\ UNCHANGED <<q_vars, s_vars, r_vars, c_vars, w_vars>>
    /\ Quiescent
    /\ dir[output_json] # 0
    /\ ValidSnapshot(TextAt(output_json))
    /\ LET i == dir[output_json]
       IN  \E text \in {SubSeq(idata[i], 1, Len(idata[i]) - 1),
                        <<Tok("#")>>, <<Tok("xff")>>} :
              FsSet(dir, io, [idata EXCEPT ![i] = text], [imtime EXCEPT ![i] = clock])
    /\ UNCHANGED <<clock, src, pc, trie_root, temp_root, h, last>>

\* The source dataset is written with a line that cannot be parsed.
GarbleSource ==
    /\ UNCHANGED <<q_vars, s_vars, r_vars, c_vars, w_vars>>
    /\ Quiescent
    /\ src.kind = "ok"
    /\ src' = [src EXCEPT !.kind = "malformed", !.mtime = clock]
    /\ FsSame
    /\ UNCHANGED <<clock, pc, trie_root, temp_root, h, last>>

\* The prefixes the callers search.
SearchedPrefixes == {<<"a">>, <<"B">>}

\* A search that first loads the artifact again when it is a sound one.
SearchWithReload(p) ==
    /\ UNCHANGED <<q_vars, s_vars, r_vars, c_vars, w_vars>>
    /\ pc[p] = "serving"
    /\ trie_root' = [trie_root EXCEPT ![p] =
                        IF ValidSnapshot(TextAt(output_json))
                        THEN load_result(TextAt(output_json)) ELSE @]
    /\ \E prefix \in SearchedPrefixes :
          h' = [h EXCEPT ![p].answer = search(trie_root'[p], prefix)]
    /\ FsSame
    /\ UNCHANGED <<clock, src, pc, temp_root, last>>

\* search(prefix) on a constructed manager: the trie is read, nothing is
\* assigned.
Search(p) ==
    /\ UNCHANGED <<q_vars, s_vars, r_vars, c_vars, w_vars>>
    /\ pc[p] = "serving"
    /\ \E prefix \in SearchedPrefixes :
          h' = [h EXCEPT ![p].answer = search(trie_root[p], prefix)]
    /\ FsSame
    /\ UNCHANGED <<clock, src, pc, trie_root, temp_root, last>>

Init ==
    /\ LOff
    /\ QOff
    /\ SOff
    /\ ROff
    /\ COff
    /\ WOff

Next ==
    \/ \E p \in Procs :
          \/ Start(p)
          \/ GenCheck(p, Builders)
          \/ ReadCsv(p)
          \/ MakeDirs(p)
          \/ OpenTmp(p)
          \/ WriteChunk(p)
          \/ Move(p)
          \/ LoadOpen(p)
          \/ LoadRead(p)
          \/ Crash(p)
          \/ Serve(p)
          \/ Exit(p)
    \/ Tick
    \/ EditSource
    \/ BreakSource
    \/ RemoveArtifact
    \/ DamageArtifact

Spec == Init /\ [][Next]_vars

\* ------------------------------- specification: two invocations that build
\* Both invocations may build, over the same paths and from the same source
\* dataset.  No process dies and nobody else touches the files.
NextRace ==
    \E p \in Procs :
        \/ Start(p)
        \/ GenCheck(p, Procs)
        \/ ReadCsv(p)
        \/ MakeDirs(p)
        \/ OpenTmp(p)
        \/ WriteChunk(p)
        \/ Move(p)
        \/ LoadOpen(p)
        \/ LoadRead(p)
        \/ Serve(p)
        \/ Exit(p)

SpecRace == Init /\ [][NextRace]_vars

\* ------------------------------------ specification: managers in service
\* One invocation builds and the other reads; their managers are searched,
\* and the source dataset is written between the constructions, well or
\* badly.  No process dies and nobody touches the artifact by hand.
NextServe ==
    \/ \E p \in Procs :
          \/ Start(p)
          \/ GenCheck(p, Builders)
          \/ ReadCsv(p)
          \/ MakeDirs(p)
          \/ OpenTmp(p)
          \/ WriteChunk(p)
          \/ Move(p)
          \/ LoadOpen(p)
          \/ LoadRead(p)
          \/ Serve(p)
          \/ Search(p)
          \/ Exit(p)
    \/ Tick
    \/ EditSource
    \/ GarbleSource

SpecServe == Init /\ [][NextServe]_vars

\* ------------------------------------- specification: the stack traversal
\* The bounds of the tries walked: nodes (the root included) and word length.
MaxNodes == 5

MaxDepth == 3

WalkWords == StringsOver({"a", "b"}, MaxDepth) \ {<<>>}

\* A collection whose loop pushes the popped node back with its children.
pushed_children_and_self(curr_node, curr_word) ==
    [i \in 1..Len(curr_node.kids) |-> Append(curr_word, curr_node.kids[i])]
        \o <<curr_word>>

\* for char, child_node in curr_node.items(): if char != "__ids__": push
pushed_children(curr_node, curr_word) ==
    [i \in 1..Len(curr_node.kids) |-> Append(curr_word, curr_node.kids[i])]

InitCollect ==
    /\ c_pc = "init"
    /\ c_trie = EmptyTrie
    /\ c_start = <<>>
    /\ c_stack = <<>>
    /\ c_results = <<>>
    /\ c_pops = <<>>
    /\ QOff
    /\ SOff
    /\ ROff
    /\ LOff
    /\ WOff

\* The trie gets one more word, within the bounds.
CInsert ==
    /\ c_pc = "init"
    /\ \E w \in WalkWords :
          /\ c_trie' = add_to_trie(c_trie, w, "d1")
          /\ c_trie' # c_trie
          /\ Cardinality(DOMAIN c_trie') <= MaxNodes
    /\ UNCHANGED <<c_pc, c_start, c_stack, c_results, c_pops>>
    /\ UNCHANGED <<q_vars, s_vars, r_vars, l_vars, w_vars>>

\* The call: results = [], stack = [(start_node, prefix)].
CCall ==
    /\ c_pc = "init"
    /\ \E n \in DOMAIN c_trie :
          /\ c_start' = n
          /\ c_stack' = <<n>>
    /\ c_results' = <<>>
    /\ c_pops' = <<>>
    /\ c_pc' = "loop"
    /\ UNCHANGED c_trie
    /\ UNCHANGED <<q_vars, s_vars, r_vars, l_vars, w_vars>>

\* One iteration of 'while stack': pop, collect, push the children.
CIterate ==
    /\ c_pc = "loop"
    /\ c_stack # <<>>
    /\ LET curr_word == c_stack[Len(c_stack)]
           curr_node == c_trie[curr_word]
       IN  /\ c_results' = IF curr_node.term THEN Append(c_results, curr_word)
                           ELSE c_results
           /\ c_stack' = SubSeq(c_stack, 1, Len(c_stack) - 1)
                            \o pushed_children(curr_node, curr_word)
           /\ c_pops' = Append(c_pops, curr_word)
    /\ UNCHANGED <<c_pc, c_trie, c_start>>
    /\ UNCHANGED <<q_vars, s_vars, r_vars, l_vars, w_vars>>

\* The stack is empty: return results.
CReturn ==
    /\ c_pc = "loop"
    /\ c_stack = <<>>
    /\ c_pc' = "done"
    /\ UNCHANGED <<c_trie, c_start, c_stack, c_results, c_pops>>
    /\ UNCHANGED <<q_vars, s_vars, r_vars, l_vars, w_vars>>

NextCollect == CInsert \/ CCall \/ CIterate \/ CReturn

SpecCollect == InitCollect /\ [][NextCollect]_vars

\* ---------------------------------------- specification: the file watcher
\* debounce_interval = 0.5 s, in quarters of a second.
debounce_interval == 2

\* The last reading of the clock that is tried.
MaxNow == 8

\* The file events the observer dispatches: the watched path or another one.
WatchPaths == {"watched", "other"}

FileEvents == [is_directory : BOOLEAN, src_path : WatchPaths, dest_path : WatchPaths]

\* A debounce that also lets an event through at exactly the interval.
should_trigger_at_interval(current_time, last_triggered_time) ==
    (current_time - last_triggered_time) >= debounce_interval

\* if (current_time - self.last_triggered_time) > self.debounce_interval
should_trigger(current_time, last_triggered_time) ==
    (current_time - last_triggered_time) > debounce_interval

\* _handle_event_debounced: the call and the new last_triggered_time.
handle_event_debounced(kind, e) ==
    LET current_time == w_now
        go == should_trigger(current_time, w_last)
    IN  /\ w_calls' = IF go THEN w_calls + 1 ELSE w_calls
        /\ w_last' = IF go THEN current_time ELSE w_last
        /\ w_evt' = [kind |-> kind, is_directory |-> e.is_directory,
                     src_path |-> e.src_path, dest_path |-> e.dest_path,
                     at |-> w_now, last0 |-> w_last, called |-> go]

\* A handler that returns without reaching _handle_event_debounced.
ignore_event(kind, e) ==
    /\ w_evt' = [kind |-> kind, is_directory |-> e.is_directory,
                 src_path |-> e.src_path, dest_path |-> e.dest_path,
                 at |-> w_now, last0 |-> w_last, called |-> FALSE]
    /\ UNCHANGED <<w_last, w_calls>>

\* The process starts: time.time() is far above the interval, and
\* last_triggered_time is 0.
InitWatch ==
    /\ w_now \in (debounce_interval + 1)..(debounce_interval + 2)
    /\ w_last = 0
    /\ w_calls = 0
    /\ w_evt = NoEvent
    /\ QOff
    /\ SOff
    /\ ROff
    /\ LOff
    /\ COff

\* Time passes between two events.
WTick ==
    /\ w_now < MaxNow
    /\ w_now' = w_now + 1
    /\ UNCHANGED <<w_last, w_calls, w_evt>>
    /\ UNCHANGED <<q_vars, s_vars, r_vars, l_vars, c_vars>>

on_modified ==
    /\ \E e \in {x \in FileEvents : x.dest_path = "other"} :
          IF ~e.is_directory /\ e.src_path = "watched"
          THEN handle_event_debounced("modified", e)
          ELSE ignore_event("modified", e)
    /\ UNCHANGED w_now
    /\ UNCHANGED <<q_vars, s_vars, r_vars, l_vars, c_vars>>

on_created ==
    /\ \E e \in {x \in FileEvents : x.dest_path = "other"} :
          IF ~e.is_directory /\ e.src_path = "watched"
          THEN handle_event_debounced("created", e)
          ELSE ignore_event("created", e)
    /\ UNCHANGED w_now
    /\ UNCHANGED <<q_vars, s_vars, r_vars, l_vars, c_vars>>

on_moved ==
    /\ \E e \in FileEvents :
          IF ~e.is_directory /\ e.dest_path = "watched"
          THEN handle_event_debounced("moved", e)
          ELSE ignore_event("moved", e)
    /\ UNCHANGED w_now
    /\ UNCHANGED <<q_vars, s_vars, r_vars, l_vars, c_vars>>

NextWatch == WTick \/ on_modified \/ on_created \/ on_moved

SpecWatch == InitWatch /\ [][NextWatch]_vars

\* ------------------------------------------------------- claims: lifecycle
\* The prefixes asked of a manager in Spec: the letters of its datasets.
AskedPrefixes == StringsOver({"a", "b"}, MaxPrefix)

\* The answers of search on two tries agree for every prefix asked.
SameAnswers(t1, t2) == \A q \in AskedPrefixes : search(t1, q) = search(t2, q)

C3_RebuildWhenSourceNewer ==
    \A p \in Procs :
        (/\ pc[p] = "ready"
         /\ h[p].checked
         /\ h[p].smt > h[p].amt
         /\ h[p].kind0 = "ok"
         /\ ~h[p].failed)
        => /\ h[p].built
           /\ h[p].moved
           /\ h[p].end_art = Serialize(BuildTrie(h[p].rows0))
           /\ trie_root[p] = BuildTrie(h[p].rows0)
           /\ SameAnswers(trie_root[p], BuildTrie(h[p].rows0))

\* A construction that found an older artifact of other rows, and now answers
\* from the new rows.
C3_Witness ==
    \E p \in Procs :
        /\ pc[p] = "ready"
        /\ h[p].smt > h[p].amt /\ h[p].amt > 0
        /\ h[p].art0 = Serialize(BuildTrie(SourceA))
        /\ h[p].rows0 = SourceB
        /\ trie_root[p] = BuildTrie(SourceB)
        /\ search(trie_root[p], <<"b">>) = <<<<"b">>>>
        /\ search(trie_root[p], <<"a">>) = <<>>

\* C4: while a process persists a build, and after it has, another process
\* that opens the artifact path finds the artifact as it stood before the
\* build (possibly no file) or the complete new snapshot, and the file it has
\* opened does not change under it.
C4_ReaderSeesWholeArtifact ==
    [][\A w \in Procs : \A p \in Procs \ {w} :
          /\ (/\ h[w].built
              /\ pc[w] \in PersistPhases \cup {"load", "parse", "ready"}
              /\ pc[p] = "load"
              /\ pc'[p] \in {"parse", "ready"})
             => LET seen == IF pc'[p] = "parse" THEN idata'[io'[p].lfd]
                                                ELSE h'[p].read
                IN  seen \in {h[w].art0, Serialize(temp_root[w])}
          /\ (pc[p] = "parse" /\ pc'[p] = "parse")
             => idata'[io'[p].lfd] = idata[io[p].lfd]]_vars

\* A reader holds the previous artifact open while the temporary file is
\* partly written.
C4_Witness ==
    \E w \in Procs : \E p \in Procs \ {w} :
        /\ pc[w] = "write" /\ io[w].wpos >= 1
        /\ Len(TextAt(temp_output)) < Len(Serialize(temp_root[w]))
        /\ pc[p] = "parse"
        /\ ValidSnapshot(idata[io[p].lfd])
        /\ idata[io[p].lfd] = h[w].art0
        /\ idata[io[p].lfd] # Serialize(temp_root[w])

\* C5: until the move has completed, the file at the artifact path is what it
\* was before the build started, also after a failure or a crash of the
\* persist step.
C5_FailedPersistLeavesArtifact ==
    \A p \in Procs :
        /\ pc[p] \in PersistPhases => TextAt(output_json) = h[p].art0
        /\ (h[p].built /\ ~h[p].moved /\ h[p].end_art # Unread) =>
              h[p].end_art = h[p].art0
        /\ (h[p].failed /\ ~h[p].moved /\ pc[p] \in {"load", "parse", "ready"}) =>
              TextAt(output_json) = h[p].art0

\* A crash while the temporary file is partly written, with an artifact in
\* place.
C5_Witness ==
    \E p \in Procs :
        /\ pc[p] = "crashed"
        /\ h[p].crashed_in = "write"
        /\ h[p].art0 # NoFileText
        /\ dir[temp_output] # 0
        /\ Len(TextAt(temp_output)) >= 1
        /\ ~ValidSnapshot(TextAt(temp_output))
        /\ TextAt(output_json) = h[p].art0

\* C6 as stated: after a build whose persist step failed, the manager
\* answers from the trie it has just built.
C6_WriteFailureKeepsFreshTrie ==
    \A p \in Procs :
        (pc[p] = "ready" /\ h[p].built /\ h[p].failed) =>
            SameAnswers(trie_root[p], BuildTrie(h[p].rows0))

\* C7 as stated: when the load reads an artifact that is no valid snapshot,
\* the construction does not raise and ends with an empty trie.
C7_CorruptArtifactLoadsEmpty ==
    \A p \in Procs :
        (h[p].read # Unread /\ h[p].read # NoFileText /\ ~ValidSnapshot(h[p].read)) =>
            /\ pc[p] = "ready"
            /\ trie_root[p] = EmptyTrie

\* ---------------------------------------------------------- claims: scorer
\* C8: veto dominance: when a disliked term is a substring of an ingredient
\* token the result is the sentinel -1 with accuracy 0, whatever the likes.
C8_VetoDominance ==
    s_pc = "done" /\ Vetoed =>
        s_result.score = DISQUALIFIED /\ s_result.accuracy = Zero

\* A vetoed row all of whose liked terms match.
C8_Witness ==
    /\ s_pc = "done"
    /\ Vetoed
    /\ Len(s_likes) = 2
    /\ Cardinality(MatchingPositions) = 2
    /\ \E d \in Range(s_dislikes) : d # <<>> /\ d \notin IngredientTokens(s_ing)
    /\ s_result.score = DISQUALIFIED

\* C9 as stated: a row that is not vetoed scores the weight times the number
\* of distinct liked terms that match; a repeated liked term adds nothing.
C9_ScoreCountsDistinctTerms ==
    s_pc = "done" /\ NotVetoed =>
        s_result.score = WEIGHT_INGREDIENT_MATCH * Cardinality(MatchingTerms)

\* C9 as amended: a row that is not vetoed scores the weight times the number
\* of entries of the likes list that match, a repeated term counted each time.
C9_ScoreCountsListEntries ==
    s_pc = "done" /\ NotVetoed =>
        s_result.score = WEIGHT_INGREDIENT_MATCH * Cardinality(MatchingPositions)

\* A scored row whose likes list names one matching term twice.
C9_Witness ==
    /\ s_pc = "done"
    /\ NotVetoed
    /\ Len(s_likes) = 2 /\ s_likes[1] = s_likes[2]
    /\ MatchingTerms # {}
    /\ s_result.score = 2 * WEIGHT_INGREDIENT_MATCH

\* C10: for a row that is not vetoed, accuracy = score / (number of liked
\* terms x weight) x 100; with an empty likes list score and accuracy are 0.
C10_AccuracyFormula ==
    s_pc = "done" /\ NotVetoed =>
        /\ s_likes # <<>> =>
              s_result.accuracy.num * (Len(s_likes) * WEIGHT_INGREDIENT_MATCH)
                  = s_result.accuracy.den * (s_result.score * 100)
        /\ s_likes = <<>> => s_result.score = 0 /\ s_result.accuracy = Zero

\* A scored row with one of its two liked terms matching: accuracy 50.
C10_Witness ==
    /\ s_pc = "done"
    /\ NotVetoed
    /\ Len(s_likes) = 2
    /\ s_result.score = WEIGHT_INGREDIENT_MATCH
    /\ s_result.accuracy = [num |-> 50, den |-> 1]

\* A scored row with no likes at all.
C10_WitnessEmptyLikes ==
    /\ s_pc = "done"
    /\ NotVetoed
    /\ s_likes = <<>>
    /\ s_result.accuracy = Zero

\* ------------------------------------------------------------ claims: trie
\* C1 as stated: after a search for p, the result contains every inserted
\* token w of which p is a prefix, for every prefix p of w (the empty prefix,
\* a prefix of every token, included).
C1_EveryPrefixFindsToken ==
    q_pc = "searched" =>
        \A w \in q_tokens :
            IsPrefix(q_prefix, w) => w \in Range(q_results)

\* C1 as amended: after a search for a non-empty p, the result contains every
\* inserted token w of which p is a prefix, p = w included.
C1_NonEmptyPrefixFindsToken ==
    q_pc = "searched" /\ q_prefix # <<>> =>
        \A w \in q_tokens :
            IsPrefix(q_prefix, w) => w \in Range(q_results)

\* A search for a token of one document that is also a proper prefix of a
\* token of another document: both are found.
C1_Witness ==
    /\ q_pc = "searched"
    /\ q_prefix # <<>>
    /\ q_prefix \in q_tokens
    /\ \E w \in q_tokens :
          w # q_prefix /\ IsPrefix(q_prefix, w) /\ q_trie[w].ids # q_trie[q_prefix].ids
    /\ Len(q_results) >= 2

\* C11: the score is the disqualified sentinel or not negative, the accuracy
\* lies between 0 and 100, and the sentinel comes with accuracy 0.
C11_ScoreAndAccuracyRanges ==
    s_pc = "done" =>
        /\ s_result.score = DISQUALIFIED \/ s_result.score >= 0
        /\ s_result.accuracy.den > 0
        /\ s_result.accuracy.num >= 0
        /\ s_result.accuracy.num <= 100 * s_result.accuracy.den
        /\ s_result.score = DISQUALIFIED => s_result.accuracy = Zero

\* A row that matches one of two liked terms in two of its ingredients.
C11_Witness ==
    /\ s_pc = "done"
    /\ Len(s_likes) = 2
    /\ s_result.score = WEIGHT_INGREDIENT_MATCH
    /\ s_result.accuracy = Frac(50, 1)
    /\ \E t \in Range(s_likes) :
          Cardinality({j \in 1..Len(ingredients_of(s_ing)) :
                          IsSubstr(t, ingredients_of(s_ing)[j])}) >= 2

\* ------------------------------------------------- claims: trie, search
\* The words the trie stores: the paths of its terminal nodes.
StoredWords(trie) == {p \in DOMAIN trie : trie[p].term}

\* A sequence names nothing twice.
NoRepeats(seq) == Len(seq) = Cardinality(Range(seq))

\* C15 as stated: for any prefix p, search(p) returns exactly the inserted
\* tokens that start with the lower-cased p, each of them once.
C15_SearchReturnsMatchingTokens ==
    q_pc = "searched" =>
        /\ Range(q_results) = {w \in q_tokens : IsPrefix(lower(q_prefix), w)}
        /\ NoRepeats(q_results)

\* C15 as amended: for any non-empty prefix p, search(p) returns exactly the
\* inserted tokens that start with the lower-cased p, each of them once; for
\* the empty prefix it returns the empty list.
C15_SearchReturnsMatchingTokensNonEmpty ==
    q_pc = "searched" =>
        /\ q_prefix # <<>> =>
              /\ Range(q_results) = {w \in q_tokens : IsPrefix(lower(q_prefix), w)}
              /\ NoRepeats(q_results)
        /\ q_prefix = <<>> => q_results = <<>>

\* A search in upper case that returns a longer token and leaves one out.
C15_Witness ==
    /\ q_pc = "searched"
    /\ q_prefix # <<>>
    /\ q_prefix # lower(q_prefix)
    /\ \E w \in Range(q_results) : w # lower(q_prefix)
    /\ q_tokens \ Range(q_results) # {}

\* C16: search("") returns the empty list whatever the trie holds.
C16_EmptyPrefixFindsNothing ==
    (q_pc = "searched" /\ q_prefix = <<>>) => q_results = <<>>

\* The empty prefix is searched in a trie that holds tokens.
C16_Witness ==
    /\ q_pc = "searched"
    /\ q_prefix = <<>>
    /\ q_tokens # {}
    /\ StoredWords(q_trie) # {}

\* C17 as stated: search(p) returns the empty list whenever p, as given, is
\* not a prefix of any stored token.
C17_AbsentPrefixFindsNothing ==
    (q_pc = "searched" /\ ~(\E w \in q_tokens : IsPrefix(q_prefix, w)))
        => q_results = <<>>

\* C17 as amended: search(p) returns the empty list whenever the lower-cased
\* p is not a prefix of any stored token: as soon as one character of the
\* lower-cased p is no child of the node reached, the result is empty.
C17_AbsentLoweredPrefixFindsNothing ==
    q_pc = "searched" =>
        /\ ~(\E w \in q_tokens : IsPrefix(lower(q_prefix), w)) => q_results = <<>>
        /\ (\E i \in 1..Len(q_prefix) :
               /\ SubSeq(lower(q_prefix), 1, i - 1) \in DOMAIN q_trie
               /\ lower(q_prefix)[i] \notin
                     Range(q_trie[SubSeq(lower(q_prefix), 1, i - 1)].kids))
           => q_results = <<>>

\* A prefix whose first character is in the trie and whose second is not.
C17_Witness ==
    /\ q_pc = "searched"
    /\ Len(q_prefix) = 2
    /\ \E w \in q_tokens : IsPrefix(SubSeq(lower(q_prefix), 1, 1), w)
    /\ ~(\E w \in q_tokens : IsPrefix(lower(q_prefix), w))
    /\ q_results = <<>>

\* C18: search(p) equals search of the lower-cased p, and every stored token
\* is lower-case, trimmed and non-empty.
C18_CaseInsensitiveSearch ==
    q_pc = "searched" =>
        /\ q_results = search(q_trie, lower(q_prefix))
        /\ \A w \in StoredWords(q_trie) :
              w # <<>> /\ lower(w) = w /\ strip(w) = w

\* A prefix in upper case finds a token.
C18_Witness ==
    /\ q_pc = "searched"
    /\ q_prefix # lower(q_prefix)
    /\ q_results # <<>>
    /\ lower(q_prefix) \in Range(q_results)

\* The first row of the dataset (among those with both fields) that inserts
\* word w for document d.
FirstInsert(rows, w, d) ==
    LET kept == dropna(rows)
    IN  CHOOSE i \in 1..Len(kept) :
            /\ kept[i].id = d /\ w \in Range(RowWords(kept[i]))
            /\ \A j \in 1..(i - 1) :
                  ~(kept[j].id = d /\ w \in Range(RowWords(kept[j])))

\* C19: after the insertions of a build, every id list names no document
\* twice and names the documents in the order of their first insertion; and
\* inserting a (token, id) pair that is present leaves the trie as it is.
C19_IdListsDeduplicated ==
    [][(q_pc = "init" /\ q_pc' = "built") =>
          \A w \in StoredWords(q_trie') :
              LET ids == q_trie'[w].ids
                  kept == dropna(q_rows)
              IN  /\ NoRepeats(ids)
                  /\ Range(ids) = {kept[i].id : i \in {j \in 1..Len(kept) :
                                                 w \in Range(RowWords(kept[j]))}}
                  /\ \A a, b \in 1..Len(ids) :
                        a < b => FirstInsert(q_rows, w, ids[a])
                                    < FirstInsert(q_rows, w, ids[b])
                  /\ \A d \in Range(ids) : add_to_trie(q_trie', w, d) = q_trie']_vars

\* A build that inserted some pair twice and a token of two documents.
C19_Witness ==
    /\ q_pc = "built"
    /\ q_repeats
    /\ \E w \in StoredWords(q_trie) : Len(q_trie[w].ids) = 2

\* ------------------------------------------------------- claims: ranking
\* The documents that are not disqualified.
Qualifying == {i \in 1..Len(r_scored) : r_scored[i].score # DISQUALIFIED}

\* x is ranked at least as high as y: by score, then by review count.
RanksAtLeast(x, y) ==
    \/ x.score > y.score
    \/ x.score = y.score /\ x.reviews >= y.reviews

\* C12: the ranked output holds no disqualified document, and is ordered by
\* score descending, rows of equal score by review count descending.
C12_RankedOrder ==
    r_pc = "done" =>
        /\ \A i \in 1..Len(r_out) :
              /\ r_out[i].score # DISQUALIFIED
              /\ r_out[i].id \in Qualifying
              /\ r_out[i].score = r_scored[r_out[i].id].score
              /\ r_out[i].reviews = r_rows[r_out[i].id].reviews
        /\ \A i, j \in 1..Len(r_out) : i < j => RanksAtLeast(r_out[i], r_out[j])

\* An output with two scores, two review counts under one score, a row moved
\* ahead of an earlier one, and a disqualified row left out.
C12_Witness ==
    /\ r_pc = "done"
    /\ \E i, j \in 1..Len(r_out) : r_out[i].score > r_out[j].score
    /\ \E i, j \in 1..Len(r_out) :
          r_out[i].score = r_out[j].score /\ r_out[i].reviews > r_out[j].reviews
    /\ \E i, j \in 1..Len(r_out) : i < j /\ r_out[i].id > r_out[j].id
    /\ \E i \in 1..Len(r_scored) : r_scored[i].score = DISQUALIFIED

\* C13: two documents of equal score and equal review count come in the
\* output in the order they have in the dataset.
C13_RankingStable ==
    r_pc = "done" =>
        \A i, j \in 1..Len(r_out) :
            (/\ i < j
             /\ r_out[i].score = r_out[j].score
             /\ r_out[i].reviews = r_out[j].reviews)
            => r_out[i].id < r_out[j].id

\* Two rows that tie on both keys and differ in their ingredient field, in
\* an output the sort has reordered.
C13_Witness ==
    /\ r_pc = "done"
    /\ \E i, j \in 1..Len(r_out) :
          /\ i < j
          /\ r_out[i].score = r_out[j].score
          /\ r_out[i].reviews = r_out[j].reviews
          /\ r_rows[r_out[i].id].ing # r_rows[r_out[j].id].ing
    /\ \E i, j \in 1..Len(r_out) : i < j /\ r_out[i].id > r_out[j].id

\* C14 as stated: the ranking returns min(top_k, number of qualifying
\* documents) entries, the highest ones, for the top_k the caller wants.
C14_TopKTruncation ==
    r_pc = "done" =>
        LET n == IF Cardinality(Qualifying) < r_topk
                 THEN Cardinality(Qualifying) ELSE r_topk
        IN  /\ Len(r_out) = n
            /\ \A i \in Qualifying :
                  (\A k \in 1..Len(r_out) : r_out[k].id # i) =>
                      \A k \in 1..Len(r_out) :
                          RanksAtLeast(r_out[k],
                                       [score |-> r_scored[i].score,
                                        reviews |-> r_rows[i].reviews])

\* C20: a row whose ingredient field is no text gets the sentinel score with
\* accuracy 0, the call returns, and the row is not in the ranked output.
C20_NonTextDisqualified ==
    r_pc = "done" =>
        \A i \in 1..Len(r_rows) :
            r_rows[i].ing = NAText =>
                /\ r_scored[i].score = DISQUALIFIED
                /\ r_scored[i].accuracy = Zero
                /\ \A k \in 1..Len(r_out) : r_out[k].id # i

\* A dataset with a row without text and a row that is ranked, asked with a
\* likes list.
C20_Witness ==
    /\ r_pc = "done"
    /\ \E i \in 1..Len(r_rows) : r_rows[i].ing = NAText
    /\ r_out # <<>>
    /\ Len(r_out) < Len(r_rows)
    /\ r_likes # <<>>

\* ------------------------------------------- claims: scorer, the terms
\* The term has an upper-case letter.
HasUpper(term) == lower(term) # term

\* The term has an upper-case letter, or a blank at one of its ends.
NotNormal(term) == lower(term) # term \/ strip(term) # term

\* C30 as stated: a disliked term with an upper-case letter or with blanks
\* around it vetoes no document, and such a liked term counts toward the
\* maximum and never toward the matches.
C30_OddTermsNeverMatch ==
    s_pc = "done" =>
        /\ (s_ing # NAText /\ \A k \in 1..Len(s_dislikes) : NotNormal(s_dislikes[k]))
              => s_result.score # DISQUALIFIED
        /\ NotVetoed =>
              s_result.score = WEIGHT_INGREDIENT_MATCH *
                  Cardinality({k \in 1..Len(s_likes) :
                      /\ ~NotNormal(s_likes[k])
                      /\ \E t \in IngredientTokens(s_ing) : IsSubstr(s_likes[k], t)})

\* C30 as amended: the terms are matched as given.  A disliked term with an
\* upper-case letter vetoes no document, and such a liked term counts toward
\* the maximum and never toward the matches; a term with a blank at its end
\* matches a token exactly when the token holds the term, blank included.
C30_UpperCaseTermsNeverMatch ==
    s_pc = "done" =>
        /\ (s_ing # NAText /\ \A k \in 1..Len(s_dislikes) : HasUpper(s_dislikes[k]))
              => s_result.score # DISQUALIFIED
        /\ NotVetoed =>
              /\ s_result.score = WEIGHT_INGREDIENT_MATCH *
                    Cardinality({k \in 1..Len(s_likes) :
                        /\ ~HasUpper(s_likes[k])
                        /\ \E t \in IngredientTokens(s_ing) : IsSubstr(s_likes[k], t)})
              /\ s_likes # <<>> =>
                    s_result.accuracy =
                        Frac(s_result.score * 100,
                             Len(s_likes) * WEIGHT_INGREDIENT_MATCH)

\* A disliked term in upper case and a liked one, both of which the row holds
\* in lower case, and a liked term with a leading blank that a token holds.
C30_Witness ==
    /\ s_pc = "done"
    /\ s_dislikes # <<>>
    /\ \A k \in 1..Len(s_dislikes) :
          HasUpper(s_dislikes[k]) /\ lower(s_dislikes[k]) \in IngredientTokens(s_ing)
    /\ \E k \in 1..Len(s_likes) :
          HasUpper(s_likes[k]) /\ lower(s_likes[k]) \in IngredientTokens(s_ing)
    /\ s_result.score = 0
    /\ s_result.accuracy = Zero

\* ------------------------------------------- claims: trie, skipped rows
\* The row has both its identifier and its data field.
Complete(r) == r.id # NA /\ r.data # NAText

\* C22: the build does not fail on a row whose identifier or data field is
\* absent.  Such a row adds no token and no id: every id stored under a word
\* is the identifier of a complete row that holds the word, no node is made
\* for an absent value, and every word of every complete row is stored with
\* the row's identifier.
C22_IncompleteRowsSkipped ==
    [][(q_pc = "init" /\ q_pc' = "built") =>
        /\ \A w \in StoredWords(q_trie') :
              \A k \in 1..Len(q_trie'[w].ids) :
                  /\ q_trie'[w].ids[k] # NA
                  /\ \E i \in 1..Len(q_rows) :
                        /\ Complete(q_rows[i])
                        /\ q_rows[i].id = q_trie'[w].ids[k]
                        /\ w \in RowTokens(q_rows[i])
        /\ \A path \in DOMAIN q_trie' : NA \notin Range(path)
        /\ \A i \in 1..Len(q_rows) :
              Complete(q_rows[i]) =>
                  \A w \in RowTokens(q_rows[i]) :
                      /\ w \in StoredWords(q_trie')
                      /\ q_rows[i].id \in Range(q_trie'[w].ids)
        /\ q_skipped' = Cardinality({i \in 1..Len(q_rows) : ~Complete(q_rows[i])})]_vars

\* A build that skipped a row and indexed another.
C22_Witness ==
    /\ q_pc = "built"
    /\ q_skipped >= 1
    /\ StoredWords(q_trie) # {}

\* ------------------------------------------ claims: the stack traversal
\* The nodes at or below the start node.
Subtree == {n \in DOMAIN c_trie : IsPrefix(c_start, n)}

\* The sequence holds no element twice.
Distinct(seq) == \A i, j \in 1..Len(seq) : seq[i] = seq[j] => i = j

\* C27: the loop of _collect_words_iterative ends.  Every iteration pops one
\* node; no node is pushed twice or popped twice, only nodes at or below the
\* start node are pushed, and a node not pushed yet has an ancestor on the
\* stack.  So the loop makes at most as many iterations as the subtree has
\* nodes, and when the stack is empty every node of the subtree has been
\* popped exactly once: the iterations are as many as the nodes, and the
\* result is the one of the whole traversal.
C27_TraversalVisitsEachNodeOnce ==
    c_pc \in {"loop", "done"} =>
        /\ Distinct(c_pops \o c_stack)
        /\ Range(c_pops \o c_stack) \subseteq Subtree
        /\ \A n \in Subtree \ Range(c_pops \o c_stack) :
              \E k \in 1..Len(c_stack) : IsPrefix(c_stack[k], n)
        /\ Len(c_pops) <= Cardinality(Subtree)
        /\ c_stack = <<>> =>
              /\ Range(c_pops) = Subtree
              /\ Len(c_pops) = Cardinality(Subtree)
              /\ c_results = collect_words_iterative(c_trie, c_start, c_start)
        /\ c_pc = "done" => c_stack = <<>>

\* A traversal that has ended on a subtree with a branch and a chain.
C27_Witness ==
    /\ c_pc = "done"
    /\ Cardinality(Subtree) >= 4
    /\ Len(c_trie[c_start].kids) = 2
    /\ Len(c_pops) = Cardinality(Subtree)
    /\ Len(c_results) >= 2

\* ---------------------------------------------- claims: the file watcher
\* The event is about the watched file: a file modified or created at the
\* watched path, or a file moved onto it.
OnWatchedFile(e) ==
    /\ ~e.is_directory
    /\ IF e.kind = "moved" THEN e.dest_path = "watched" ELSE e.src_path = "watched"

\* C28: an event calls my_trigger_function exactly when it is about the
\* watched file and more than debounce_interval has passed since the last
\* call (since time 0 when there was none), and then one call is made;
\* last_triggered_time becomes the time of the event when the function is
\* called and is left alone otherwise, so events about other paths or about
\* directories neither call the function nor move last_triggered_time.
C28_DebouncedTrigger ==
    [][w_evt' # w_evt =>
        LET e == w_evt'
            go == OnWatchedFile(e) /\ w_now - w_last > debounce_interval
        IN  /\ e.called = go
            /\ w_calls' = IF go THEN w_calls + 1 ELSE w_calls
            /\ w_last' = IF go THEN w_now ELSE w_last
            /\ w_now' = w_now]_vars

\* An event on the watched file exactly debounce_interval after a call is
\* dropped, after an earlier call was made.
C28_Witness ==
    /\ w_calls >= 1
    /\ OnWatchedFile(w_evt)
    /\ ~w_evt.called
    /\ w_evt.at - w_evt.last0 = debounce_interval

\* --------------------------------------- claims: ranking, empty datasets
\* C21: a ranking of a dataset without rows, or of one whose documents are
\* all disqualified, returns an empty sequence and raises nothing.
C21_EmptyInputGivesEmptyRanking ==
    (r_pc \in {"done", "nofile", "raised"} /\ Qualifying = {}) =>
        /\ r_pc # "raised"
        /\ r_out = <<>>

\* --------------------------------- claims: lifecycle, failures and reuse
\* C23: a construction that finds no source dataset raises at once: nothing
\* is tested, built, written or loaded, no file changes, and the process
\* never holds a manager to search; it can only end.
C23_MissingSourceRaisesFirst ==
    [][\A p \in Procs :
        /\ (pc[p] = "idle" /\ pc'[p] # "idle" /\ src.kind = "missing") =>
              /\ pc'[p] = "raised"
              /\ h'[p] = H0
              /\ trie_root'[p] = EmptyTrie
              /\ temp_root'[p] = EmptyTrie
              /\ UNCHANGED <<dir, idata, imtime, io>>
        /\ (pc[p] = "raised" /\ h[p] = H0 /\ pc'[p] # "raised") =>
              /\ pc'[p] = "idle"
              /\ UNCHANGED <<dir, idata, imtime, io>>]_vars

\* A construction has raised for a missing source next to a sound artifact.
C23_Witness ==
    \E p \in Procs :
        /\ pc[p] = "raised"
        /\ h[p] = H0
        /\ src.kind = "missing"
        /\ ValidSnapshot(TextAt(output_json))

\* C24: reading the dataset raises exactly when the columns are absent; any
\* other failure of the read goes on to the load, with no file changed.
C24_RaisesOnlyOnMissingColumns ==
    [][\A p \in Procs :
        (pc[p] = "read" /\ pc'[p] # "read") =>
            /\ pc'[p] = "raised" <=> src.kind = "noschema"
            /\ src.kind \notin {"ok", "noschema"} =>
                  /\ pc'[p] = "load"
                  /\ UNCHANGED <<dir, idata, imtime>>]_vars

\* C25: a construction never goes back to the staleness test or the read
\* once it has left them, and builds no second trie; a manager in service
\* keeps its trie whatever is searched and whatever happens to the source
\* dataset and the artifact, and touches nothing until its process ends.
C25_BuiltOnceThenFrozen ==
    [][\A p \in Procs :
        /\ pc[p] \notin {"idle", "gen", "read"} => pc'[p] \notin {"gen", "read"}
        /\ pc[p] = "read" => pc'[p] # "gen"
        /\ h[p].built =>
              \/ temp_root'[p] = temp_root[p]
              \/ pc'[p] \in {"serving", "idle"}
        /\ (pc[p] = "serving" /\ pc'[p] = "serving") => trie_root'[p] = trie_root[p]
        /\ pc[p] = "serving" => pc'[p] \in {"serving", "idle"}]_vars

\* A manager that has been searched serves the trie of an older dataset,
\* while the artifact holds the trie of the dataset written since.
C25_Witness ==
    \E p \in Procs :
        /\ pc[p] = "serving"
        /\ h[p].answer # H0.answer
        /\ trie_root[p] # EmptyTrie
        /\ ValidSnapshot(TextAt(output_json))
        /\ ParsedTrie(TextAt(output_json)) # trie_root[p]
        /\ ParsedTrie(TextAt(output_json)) = BuildTrie(src.rows)

\* C26: a construction that finds a corrupt artifact newer than the source
\* dataset does not rebuild: it ends with an empty trie and has written
\* nothing.
C26_CorruptArtifactGivesEmptyTrie ==
    \A p \in Procs :
        (/\ h[p].checked
         /\ ~h[p].entered
         /\ h[p].art0 # NoFileText
         /\ ~ValidSnapshot(h[p].art0)
         /\ h[p].read = h[p].art0) =>
            /\ pc[p] = "ready"
            /\ trie_root[p] = EmptyTrie
            /\ ~h[p].built
            /\ ~h[p].moved

\* C29: with two invocations building at once, the artifact path holds no
\* file or the complete text of the build of the source dataset.
C29_ArtifactAbsentOrComplete ==
    \/ TextAt(output_json) = NoFileText
    \/ TextAt(output_json) = Serialize(BuildTrie(src.rows))

====
